---- MODULE Spec2Model ----
(***************************************************************************)
(* A model of src/src/encryption.js: ECIES encryption / decryption and     *)
(* ECDSA signing / verification over an elliptic curve, together with the  *)
(* helpers equalConstTime, sharedSecretToKeys and getHexFromBN.            *)
(*                                                                         *)
(* Buffers are sequences of bytes (0..255), hex strings are sequences of   *)
(* one-character strings, JavaScript strings are sequences of UTF-16 code  *)
(* units.  The curve is y^2 = x^3 + 7 over a prime field, as secp256k1 is, *)
(* scaled down to one-byte field elements so that the arithmetic fits the  *)
(* model checker's integers.                                               *)
(***************************************************************************)
EXTENDS Integers, Sequences, FiniteSets, TLC

VARIABLES eq, hx, ecies, dsa

vars == <<eq, hx, ecies, dsa>>

\* The value of a part of the state that a specification does not use.
Unused == [pc |-> "unused"]

(***************************************************************************)
(* Bytes and bit operations                                                *)
(***************************************************************************)
Pow2(k) == 2 ^ k

\* Bit k of the byte a.
Bit(a, k) == (a \div Pow2(k)) % 2

\* a ^ b and a | b on four-bit halves, tabulated bit by bit.
NibbleXor ==
  [a \in 0..15 |-> [b \in 0..15 |->
     LET d(k) == ((Bit(a, k) + Bit(b, k)) % 2) * Pow2(k)
     IN  d(0) + d(1) + d(2) + d(3)]]

NibbleOr ==
  [a \in 0..15 |-> [b \in 0..15 |->
     LET d(k) == (IF Bit(a, k) = 1 \/ Bit(b, k) = 1 THEN 1 ELSE 0) * Pow2(k)
     IN  d(0) + d(1) + d(2) + d(3)]]

\* a ^ b and a | b on bytes.
BitXor(a, b) == 16 * NibbleXor[a \div 16][b \div 16] + NibbleXor[a % 16][b % 16]

BitOr(a, b) == 16 * NibbleOr[a \div 16][b \div 16] + NibbleOr[a % 16][b % 16]

\* for (i = lo; i <= hi; i++) acc = Body(acc, i), run left to right.  The
\* range is split in two and the left half is finished before the right half
\* starts, which keeps the evaluation shallow on long buffers.
RECURSIVE ForLoop(_, _, _, _)
ForLoop(Body(_, _), lo, hi, acc) ==
  IF lo > hi THEN acc
  ELSE IF lo = hi THEN Body(acc, lo)
  ELSE LET mid == (lo + hi) \div 2
           left == ForLoop(Body, lo, mid, acc)
       IN  IF left = left THEN ForLoop(Body, mid + 1, hi, left) ELSE left

\* Buffer.concat of a list of buffers.
RECURSIVE BufferConcat(_)
BufferConcat(list) ==
  IF list = <<>> THEN <<>> ELSE Head(list) \o BufferConcat(Tail(list))

\* buf.slice(from, to), zero-based, end exclusive.
BufferSlice(buf, from, to) == SubSeq(buf, from + 1, to)

\* A buffer of n bytes, all equal to v.
Fill(n, v) == [i \in 1..n |-> v]

(***************************************************************************)
(* equalConstTime (lines 29-38)                                            *)
(***************************************************************************)
\* The loop body: res |= b1[i] ^ b2[i]
EqLoopBodyNoAccumulate(res, x, y) == BitXor(x, y)
EqLoopBody(res, x, y) == BitOr(res, BitXor(x, y))

\* The loop of lines 34-36.
EqLoop(b1, b2) ==
  LET Body(res, i) == EqLoopBody(res, b1[i], b2[i])
  IN  ForLoop(Body, 1, Len(b1), 0)

\* A comparison that looks at the lengths alone.
equalConstTimeLengthOnly(b1, b2) == Len(b1) = Len(b2)

\* The whole function, as the other functions call it.
equalConstTime(b1, b2) ==
  IF Len(b1) # Len(b2) THEN FALSE
  ELSE EqLoop(b1, b2) = 0

\* Inputs of the comparison: every pair of short buffers over EqBytes, and
\* long buffers that agree everywhere or differ in one place.
EqBytes == {0, 1, 255}
MaxEqLen == 3
LongEqLen == 64

RECURSIVE SeqsUpTo(_, _)
SeqsUpTo(S, n) ==
  IF n = 0 THEN {<<>>}
  ELSE LET shorter == SeqsUpTo(S, n - 1)
       IN  shorter \cup {Append(s, x) : s \in {t \in shorter : Len(t) = n - 1}, x \in S}

ShortEqInputs ==
  {<<a, b>> : a \in SeqsUpTo(EqBytes, MaxEqLen), b \in SeqsUpTo(EqBytes, MaxEqLen)}

LongEqInputs ==
  UNION {{<<Fill(n, 1), [i \in 1..m |-> IF i = d THEN 255 ELSE 1]>> :
             m \in {n - 1, n}, d \in {0, 1, (n + 1) \div 2, n}} :
         n \in (MaxEqLen + 1)..LongEqLen}

EqInit ==
  /\ \E input \in ShortEqInputs \cup LongEqInputs :
       eq = [pc |-> "entry", b1 |-> input[1], b2 |-> input[2], i |-> 0, res |-> 0,
             visited |-> <<>>, tested |-> 0, ret |-> FALSE]
  /\ hx = Unused /\ ecies = Unused /\ dsa = Unused

\* Lines 30-33: the length test, then res = 0 and i = 0.
EqLengthCheck ==
  /\ eq.pc = "entry"
  /\ IF Len(eq.b1) # Len(eq.b2)
       THEN eq' = [eq EXCEPT !.pc = "done", !.ret = FALSE]
       ELSE eq' = [eq EXCEPT !.pc = "loop", !.res = 0, !.i = 0]
  /\ UNCHANGED <<hx, ecies, dsa>>

\* Lines 34-36: one iteration, taken while i < b1.length.
EqLoopStep ==
  /\ eq.pc = "loop"
  /\ eq.i < Len(eq.b1)
  /\ eq' = [eq EXCEPT !.res = EqLoopBody(eq.res, eq.b1[eq.i + 1], eq.b2[eq.i + 1]),
                      !.visited = Append(eq.visited, eq.i),
                      !.i = eq.i + 1]
  /\ UNCHANGED <<hx, ecies, dsa>>

\* Line 37: the loop is over, return res === 0.
EqReturn ==
  /\ eq.pc = "loop"
  /\ ~(eq.i < Len(eq.b1))
  /\ eq' = [eq EXCEPT !.pc = "done", !.ret = (eq.res = 0), !.tested = eq.tested + 1]
  /\ UNCHANGED <<hx, ecies, dsa>>

EqNext == EqLengthCheck \/ EqLoopStep \/ EqReturn

SpecEq == EqInit /\ [][EqNext]_vars

\* C8: equalConstTime returns false on a length mismatch; on equal lengths it
\* returns true exactly when the buffers agree at every index, having visited
\* every index once, in order, and tested the accumulator once, after the loop.
EqualConstTimeCorrect ==
  eq.pc = "done" =>
    /\ Len(eq.b1) # Len(eq.b2) => (eq.ret = FALSE /\ eq.visited = <<>> /\ eq.tested = 0)
    /\ Len(eq.b1) = Len(eq.b2) =>
         /\ eq.ret = (\A k \in 1..Len(eq.b1) : eq.b1[k] = eq.b2[k])
         /\ eq.visited = [k \in 1..Len(eq.b1) |-> k - 1]
         /\ eq.tested = 1
         /\ eq.ret = equalConstTime(eq.b1, eq.b2)

\* A comparison of two 64-byte buffers that differ in their first byte only
\* has run to the end.
EqualConstTimeWitness ==
  /\ eq.pc = "done"
  /\ Len(eq.b1) = 64 /\ Len(eq.b2) = 64
  /\ eq.b1[1] # eq.b2[1]
  /\ eq.ret = FALSE
  /\ Len(eq.visited) = 64

(***************************************************************************)
(* Hex strings and big numbers                                             *)
(***************************************************************************)
\* The characters toString('hex') writes, by digit value.
HexChars == <<"0", "1", "2", "3", "4", "5", "6", "7",
              "8", "9", "a", "b", "c", "d", "e", "f">>
UpperHexChars == <<"0", "1", "2", "3", "4", "5", "6", "7",
                   "8", "9", "A", "B", "C", "D", "E", "F">>

HexDigitOf ==
  [c \in {HexChars[v] : v \in 1..16} \cup {UpperHexChars[v] : v \in 1..16} |->
     IF \E v \in 1..16 : HexChars[v] = c THEN (CHOOSE v \in 1..16 : HexChars[v] = c) - 1
     ELSE (CHOOSE v \in 1..16 : UpperHexChars[v] = c) - 1]

\* The value of a hex character, -1 for any other character.
HexVal(c) == IF c \in DOMAIN HexDigitOf THEN HexDigitOf[c] ELSE -1

\* str.repeat(n) for a one-character string.
Repeat(c, n) == [i \in 1..n |-> c]

\* A big number (bn.js) is its magnitude in base 16, least significant digit
\* first, without a most significant zero digit; zero is the empty sequence.
BNFromInt(n) ==
  IF n = 0 THEN <<>>
  ELSE IF n < 16 THEN <<n>>
  ELSE IF n < 256 THEN <<n % 16, n \div 16>>
  ELSE <<n % 16, (n \div 16) % 16, n \div 256>>

\* bn.toString('hex'): the digits from the most significant down, "0" for zero.
BNToString16(bn) ==
  IF bn = <<>> THEN <<"0">>
  ELSE [i \in 1..Len(bn) |-> HexChars[bn[Len(bn) - i + 1] + 1]]

\* The width getHexFromBN pads to (lines 52, 54 and 57).
HexWidth == 64

\* A conversion that pads to one character less.
getHexFromBNPadOneShort(bnInput) ==
  LET hexOut == BNToString16(bnInput)
  IN  IF Len(hexOut) = HexWidth THEN [outcome |-> "return", value |-> hexOut]
      ELSE IF Len(hexOut) < HexWidth
        THEN [outcome |-> "return",
              value |-> Repeat("0", HexWidth - 1 - Len(hexOut)) \o hexOut]
      ELSE [outcome |-> "throw", value |-> <<>>]

\* getHexFromBN (lines 49-62).
getHexFromBN(bnInput) ==
  LET hexOut == BNToString16(bnInput)
  IN  IF Len(hexOut) = HexWidth THEN [outcome |-> "return", value |-> hexOut]
      ELSE IF Len(hexOut) < HexWidth
        THEN LET padding == Repeat("0", HexWidth - Len(hexOut))
             IN  [outcome |-> "return", value |-> padding \o hexOut]
      ELSE [outcome |-> "throw", value |-> <<>>]

\* Inputs: zero, and numbers of 1..MaxBNDigits hex digits.
MaxBNDigits == 66
BNTopDigits == {1, 8, 15}
BNLowDigits == {0, 9, 15}

BNInputs ==
  {<<>>} \cup {[i \in 1..n |-> IF i = n THEN top ELSE low] :
                  n \in 1..MaxBNDigits, top \in BNTopDigits, low \in BNLowDigits}

HexInit ==
  /\ \E bn \in BNInputs :
       hx = [pc |-> "entry", bn |-> bn, outcome |-> "none", value |-> <<>>]
  /\ eq = Unused /\ ecies = Unused /\ dsa = Unused

\* One call of getHexFromBN.
HexCall ==
  /\ hx.pc = "entry"
  /\ LET r == getHexFromBN(hx.bn)
     IN  hx' = [hx EXCEPT !.pc = "done", !.outcome = r.outcome, !.value = r.value]
  /\ UNCHANGED <<eq, ecies, dsa>>

HexNext == HexCall

SpecHex == HexInit /\ [][HexNext]_vars

\* The number a hex string denotes: its digits, least significant first,
\* without the leading zeros.
RECURSIVE StripHighZeros(_)
StripHighZeros(digits) ==
  IF digits = <<>> THEN <<>>
  ELSE IF digits[Len(digits)] = 0 THEN StripHighZeros(SubSeq(digits, 1, Len(digits) - 1))
  ELSE digits

HexToBN(str) == StripHighZeros([i \in 1..Len(str) |-> HexVal(str[Len(str) - i + 1])])

\* C9: getHexFromBN returns the natural hex form unchanged when it has 64
\* characters, left-padded with "0" to 64 characters when it is shorter (the
\* number it denotes is the input, zero included), and throws when it is longer.
GetHexFromBNCorrect ==
  hx.pc = "done" =>
    LET natural == BNToString16(hx.bn)
    IN  /\ hx.outcome \in {"return", "throw"}
        /\ hx.outcome = "throw" <=> Len(natural) > 64
        /\ hx.outcome = "throw" => hx.value = <<>>
        /\ hx.outcome = "return" =>
             /\ Len(hx.value) = 64
             /\ \A i \in 1..64 : HexVal(hx.value[i]) \in 0..15
             /\ SubSeq(hx.value, 64 - Len(natural) + 1, 64) = natural
             /\ \A i \in 1..(64 - Len(natural)) : hx.value[i] = "0"
             /\ HexToBN(hx.value) = hx.bn
        /\ Len(natural) = 64 => hx.value = natural

\* Zero has been padded to 64 zeros, or a 65-digit number has been refused.
GetHexFromBNWitness ==
  /\ hx.pc = "done"
  /\ \/ hx.bn = <<>> /\ hx.value = Repeat("0", 64)
     \/ Len(hx.bn) = 65 /\ hx.outcome = "throw"

(***************************************************************************)
(* The curve (line 7).  secp256k1 is y^2 = x^3 + 7 over a 256-bit prime    *)
(* field, of prime order, with p = 3 (mod 4) and n < p.  The model keeps   *)
(* that shape on the field of CurveP elements, so that a coordinate is one *)
(* byte where secp256k1 has 32.                                            *)
(***************************************************************************)
CurveP == 211
CurveN == 199
CurveB == 7
\* p.byteLength(): the bytes of one coordinate.
CoordLen == 1

RECURSIVE ModPow(_, _, _)
ModPow(a, e, m) ==
  IF e = 0 THEN 1
  ELSE LET h == ModPow(a, e \div 2, m)
           sq == (h * h) % m
       IN  IF (e % 2) = 1 THEN (sq * (a % m)) % m ELSE sq

\* The inverses modulo the field prime and modulo the group order.
InverseModP == [a \in 0..(CurveP - 1) |-> ModPow(a, CurveP - 2, CurveP)]
InverseModN == [a \in 0..(CurveN - 1) |-> ModPow(a, CurveN - 2, CurveN)]

\* The inverse modulo a prime.
ModInv(a, m) ==
  IF m = CurveP THEN InverseModP[a % m]
  ELSE IF m = CurveN THEN InverseModN[a % m]
  ELSE ModPow(a % m, m - 2, m)

Infinity == [inf |-> TRUE, x |-> 0, y |-> 0]
Point(x, y) == [inf |-> FALSE, x |-> x % CurveP, y |-> y % CurveP]

OnCurve(P) == P.inf \/ (P.y * P.y) % CurveP = (((P.x * P.x) % CurveP) * P.x + CurveB) % CurveP

PointNeg(P) == IF P.inf THEN P ELSE Point(P.x, CurveP - P.y)

PointAdd(P, Q) ==
  IF P.inf THEN Q
  ELSE IF Q.inf THEN P
  ELSE IF P.x = Q.x /\ (P.y + Q.y) % CurveP = 0 THEN Infinity
  ELSE LET lambda == IF P = Q
                       THEN (3 * ((P.x * P.x) % CurveP) * ModInv(2 * P.y, CurveP)) % CurveP
                       ELSE (((Q.y - P.y) % CurveP) * ModInv(Q.x - P.x, CurveP)) % CurveP
           x3 == (lambda * lambda - P.x - Q.x) % CurveP
           y3 == (lambda * ((P.x - x3) % CurveP) - P.y) % CurveP
       IN  Point(x3, y3)

\* point.mul(k)
RECURSIVE PointMul(_, _)
PointMul(k, P) ==
  IF k = 0 THEN Infinity
  ELSE LET h == PointMul(k \div 2, P)
           d == PointAdd(h, h)
       IN  IF (k % 2) = 1 THEN PointAdd(d, P) ELSE d

\* curve.pointFromX(x, odd): the point with that x and that parity of y.
PointFromX(x, odd) ==
  LET xr == x % CurveP
      y2 == (((xr * xr) % CurveP) * xr + CurveB) % CurveP
      y  == ModPow(y2, (CurveP + 1) \div 4, CurveP)
  IN  IF (y * y) % CurveP # y2 THEN [outcome |-> "throw", error |-> "invalid point", point |-> Infinity]
      ELSE [outcome |-> "return", error |-> "",
            point |-> IF ((y % 2) = 1) = odd THEN Point(xr, y) ELSE Point(xr, CurveP - y)]

\* The base point: the point of even y on the smallest x that has one.
CurveG == PointFromX(CHOOSE x \in 0..(CurveP - 1) :
                       /\ PointFromX(x, FALSE).outcome = "return"
                       /\ \A w \in 0..(x - 1) : PointFromX(w, FALSE).outcome = "throw",
                     FALSE).point

(***************************************************************************)
(* Encodings                                                               *)
(***************************************************************************)
\* buf.toString('hex'): two lower-case characters a byte.
BufferToHex(buf) ==
  [i \in 1..(2 * Len(buf)) |->
     IF (i % 2) = 1 THEN HexChars[(buf[(i + 1) \div 2] \div 16) + 1]
     ELSE HexChars[(buf[i \div 2] % 16) + 1]]

\* new Buffer(str, 'hex'): the bytes of the leading pairs of hex characters;
\* decoding stops at the first pair that is not two hex characters.
HexToBuffer(str) ==
  LET pairs == Len(str) \div 2
      good(k) == HexVal(str[2 * k - 1]) >= 0 /\ HexVal(str[2 * k]) >= 0
      n == IF \A k \in 1..pairs : good(k) THEN pairs
           ELSE (CHOOSE k \in 1..pairs : ~good(k) /\ \A j \in 1..(k - 1) : good(j)) - 1
  IN  [k \in 1..n |-> 16 * HexVal(str[2 * k - 1]) + HexVal(str[2 * k])]

\* The hex reader of the curve library (keyFromPublic(hex, 'hex') and the
\* signature reader): a leading "0" is added to a string of odd length, then
\* every pair is read with parseInt(pair, 16); -1 stands for NaN.
CurveHexToArray(str) ==
  LET even == IF (Len(str) % 2) = 1 THEN <<"0">> \o str ELSE str
      pair(k) == LET hi == HexVal(even[2 * k - 1])
                     lo == HexVal(even[2 * k])
                 IN  IF hi < 0 THEN -1 ELSE IF lo < 0 THEN hi ELSE 16 * hi + lo
  IN  [k \in 1..(Len(even) \div 2) |-> pair(k)]

\* A string is a sequence of UTF-16 code units.
IsHighSurrogate(u) == u >= 55296 /\ u <= 56319
IsLowSurrogate(u) == u >= 56320 /\ u <= 57343

\* The UTF-8 bytes of a code point.
Utf8OfCodePoint(cp) ==
  IF cp < 128 THEN <<cp>>
  ELSE IF cp < 2048 THEN <<192 + (cp \div 64), 128 + (cp % 64)>>
  ELSE IF cp < 65536
    THEN <<224 + (cp \div 4096), 128 + ((cp \div 64) % 64), 128 + (cp % 64)>>
  ELSE <<240 + (cp \div 262144), 128 + ((cp \div 4096) % 64),
         128 + ((cp \div 64) % 64), 128 + (cp % 64)>>

\* Buffer.from(string): UTF-8; a surrogate pair is one code point, a
\* surrogate without its partner is written as U+FFFD (ef bf bd).
RECURSIVE Utf8Encode(_)
Utf8Encode(units) ==
  IF units = <<>> THEN <<>>
  ELSE LET u == Head(units)
       IN  IF IsHighSurrogate(u) /\ Len(units) >= 2 /\ IsLowSurrogate(units[2])
             THEN Utf8OfCodePoint(65536 + (u - 55296) * 1024 + (units[2] - 56320))
                    \o Utf8Encode(Tail(Tail(units)))
           ELSE IF IsHighSurrogate(u) \/ IsLowSurrogate(u)
             THEN Utf8OfCodePoint(65533) \o Utf8Encode(Tail(units))
           ELSE Utf8OfCodePoint(u) \o Utf8Encode(Tail(units))

\* The code units of a code point.
UnitsOfCodePoint(cp) ==
  IF cp < 65536 THEN <<cp>>
  ELSE <<55296 + ((cp - 65536) \div 1024), 56320 + ((cp - 65536) % 1024)>>

IsCont(buf, i, lo, hi) == i <= Len(buf) /\ buf[i] >= lo /\ buf[i] <= hi

\* buf.toString(): UTF-8 decoding from byte i on; each ill-formed sequence
\* (its longest well-formed start) becomes one U+FFFD.
RECURSIVE Utf8DecodeFrom(_, _)
Utf8DecodeFrom(buf, i) ==
  IF i > Len(buf) THEN <<>>
  ELSE LET b == buf[i]
           lo2 == IF b = 224 THEN 160 ELSE IF b = 240 THEN 144 ELSE 128
           hi2 == IF b = 237 THEN 159 ELSE IF b = 244 THEN 143 ELSE 191
           bad(n) == <<65533>> \o Utf8DecodeFrom(buf, i + n)
       IN  IF b < 128 THEN <<b>> \o Utf8DecodeFrom(buf, i + 1)
           ELSE IF b >= 194 /\ b <= 223
             THEN IF IsCont(buf, i + 1, 128, 191)
                    THEN <<(b - 192) * 64 + (buf[i + 1] - 128)>> \o Utf8DecodeFrom(buf, i + 2)
                    ELSE bad(1)
           ELSE IF b >= 224 /\ b <= 239
             THEN IF ~IsCont(buf, i + 1, lo2, hi2) THEN bad(1)
                  ELSE IF ~IsCont(buf, i + 2, 128, 191) THEN bad(2)
                  ELSE <<(b - 224) * 4096 + (buf[i + 1] - 128) * 64 + (buf[i + 2] - 128)>>
                         \o Utf8DecodeFrom(buf, i + 3)
           ELSE IF b >= 240 /\ b <= 244
             THEN IF ~IsCont(buf, i + 1, lo2, hi2) THEN bad(1)
                  ELSE IF ~IsCont(buf, i + 2, 128, 191) THEN bad(2)
                  ELSE IF ~IsCont(buf, i + 3, 128, 191) THEN bad(3)
                  ELSE UnitsOfCodePoint((b - 240) * 262144 + (buf[i + 1] - 128) * 4096
                                          + (buf[i + 2] - 128) * 64 + (buf[i + 3] - 128))
                         \o Utf8DecodeFrom(buf, i + 4)
           ELSE bad(1)

Utf8Decode(buf) == Utf8DecodeFrom(buf, 1)

\* Content is a string or a buffer: [isString, data], data the code units of
\* the string or the bytes of the buffer.
StringContent(units) == [isString |-> TRUE, data |-> units]
BufferContent(bytes) == [isString |-> FALSE, data |-> bytes]

\* Buffer.from(content): the UTF-8 bytes of a string, a copy of a buffer.
BufferFrom(content) ==
  IF content.isString THEN Utf8Encode(content.data) ELSE content.data

(***************************************************************************)
(* Points on the wire                                                      *)
(***************************************************************************)
\* point.encodeCompressed(): 02 or 03 by the parity of y, then x.
EncodeCompressed(P) == <<IF (P.y % 2) = 0 THEN 2 ELSE 3, P.x>>

\* point.encode(): 04, x, y.
EncodeUncompressed(P) == <<4, P.x, P.y>>

\* point.encode() in the hybrid form: 06 or 07 by the parity of y, x, y.
EncodeHybrid(P) == <<IF (P.y % 2) = 0 THEN 6 ELSE 7, P.x, P.y>>

\* curve.decodePoint(bytes), as keyFromPublic calls it.
DecodePoint(bytes) ==
  LET failed(msg) == [outcome |-> "throw", error |-> msg, point |-> Infinity]
  IN  IF bytes # <<>> /\ bytes[1] \in {4, 6, 7} /\ Len(bytes) - 1 = 2 * CoordLen
        THEN IF bytes[1] = 6 /\ (bytes[Len(bytes)] % 2) # 0 THEN failed("Assertion failed")
             ELSE IF bytes[1] = 7 /\ (bytes[Len(bytes)] % 2) # 1 THEN failed("Assertion failed")
             ELSE IF \E k \in 2..Len(bytes) : bytes[k] < 0 THEN failed("invalid point")
             ELSE [outcome |-> "return", error |-> "", point |-> Point(bytes[2], bytes[3])]
      ELSE IF bytes # <<>> /\ bytes[1] \in {2, 3} /\ Len(bytes) - 1 = CoordLen
        THEN IF bytes[2] < 0 THEN failed("invalid point")
             ELSE PointFromX(bytes[2], bytes[1] = 3)
      ELSE failed("Unknown point format")

\* ecurve.keyFromPublic(hex, 'hex').getPublic()
KeyFromPublic(hex) == DecodePoint(CurveHexToArray(hex))

\* key.derive(pub): the x coordinate of pub * priv, a big number.
Derive(priv, pub) == BNFromInt(PointMul(priv, pub).x)

(***************************************************************************)
(* The primitives of the crypto module.  SHA-256, SHA-512 and HMAC-SHA256  *)
(* are stood for by one deterministic digest of the input bytes, with the  *)
(* output lengths of the real ones: two running sums modulo two primes     *)
(* absorb the input, and every output byte is drawn from both.  AES is     *)
(* stood for by a byte-wise keyed permutation, run in CBC mode with the    *)
(* padding of the real cipher.                                             *)
(***************************************************************************)
DigestPrime1 == 32749
DigestPrime2 == 32719

DigestAbsorb(st, byte) ==
  <<(st[1] * 31 + byte + 1) % DigestPrime1, (st[2] * 37 + byte + 1) % DigestPrime2>>

\* The multipliers of output byte i: 31^i and 37^i.
DigestPowers ==
  [i \in 1..64 |-> <<ModPow(31, i, DigestPrime1), ModPow(37, i, DigestPrime2)>>]

DigestByte(st, i) ==
  (((st[1] * DigestPowers[i][1]) % DigestPrime1)
     + ((st[2] * DigestPowers[i][2]) % DigestPrime2) + i) % 256

Digest(start, data, n) ==
  LET Body(st, i) == DigestAbsorb(st, data[i])
      final == ForLoop(Body, 1, Len(data), <<start, start>>)
  IN  [i \in 1..n |-> DigestByte(final, i)]

\* crypto.createHash('sha512').update(data).digest(): 64 bytes.
Sha512(data) == Digest(512, data, 64)

\* crypto.createHash('sha256').update(data).digest(): 32 bytes.
Sha256(data) == Digest(256, data, 32)

\* hmacSha256 (lines 25-27): 32 bytes.
hmacSha256(key, content) == Digest(1, key \o content, 32)

\* A split with the two halves exchanged.
sharedSecretToKeysSwapped(sharedSecret) ==
  LET hashedSecret == Sha512(sharedSecret)
  IN  [encryptionKey |-> BufferSlice(hashedSecret, 32, Len(hashedSecret)),
       hmacKey |-> BufferSlice(hashedSecret, 0, 32)]

\* sharedSecretToKeys (lines 40-47).
sharedSecretToKeys(sharedSecret) ==
  LET hashedSecret == Sha512(sharedSecret)
  IN  [encryptionKey |-> BufferSlice(hashedSecret, 0, 32),
       hmacKey |-> BufferSlice(hashedSecret, 32, Len(hashedSecret))]

\* The block size of AES.
BlockLen == 16

\* The padding cipher.final() adds: 1..16 bytes, each the number of them.
Pkcs7Pad(plaintext) ==
  LET n == BlockLen - (Len(plaintext) % BlockLen)
  IN  plaintext \o Fill(n, n)

\* One block through the keyed permutation, and back.
BlockEncrypt(key, block) == [i \in 1..BlockLen |-> (block[i] + key[i] + 3 * key[BlockLen + i]) % 256]
BlockDecrypt(key, block) == [i \in 1..BlockLen |-> (block[i] - key[i] - 3 * key[BlockLen + i]) % 256]

XorBlock(a, b) == [i \in 1..BlockLen |-> BitXor(a[i], b[i])]

\* CBC over the padded plaintext: block k is the encryption of the plaintext
\* block xor the previous ciphertext block (the IV for the first).
RECURSIVE CbcEncryptBlocks(_, _, _)
CbcEncryptBlocks(key, prev, padded) ==
  IF padded = <<>> THEN <<>>
  ELSE LET c == BlockEncrypt(key, XorBlock(SubSeq(padded, 1, BlockLen), prev))
       IN  c \o CbcEncryptBlocks(key, c, SubSeq(padded, BlockLen + 1, Len(padded)))

RECURSIVE CbcDecryptBlocks(_, _, _)
CbcDecryptBlocks(key, prev, ciphertext) ==
  IF ciphertext = <<>> THEN <<>>
  ELSE LET c == SubSeq(ciphertext, 1, BlockLen)
       IN  XorBlock(BlockDecrypt(key, c), prev)
             \o CbcDecryptBlocks(key, c, SubSeq(ciphertext, BlockLen + 1, Len(ciphertext)))

\* aes256CbcEncrypt (lines 15-18).  createCipheriv looks at the length of the
\* IV before that of the key; the wording of the IV error is that of current
\* Node releases (older ones say 'Invalid IV length').
aes256CbcEncrypt(iv, key, plaintext) ==
  IF Len(iv) # BlockLen
    THEN [outcome |-> "throw", error |-> "Invalid initialization vector", value |-> <<>>]
  ELSE IF Len(key) # 32
    THEN [outcome |-> "throw", error |-> "Invalid key length", value |-> <<>>]
  ELSE [outcome |-> "return", error |-> "",
        value |-> CbcEncryptBlocks(key, iv, Pkcs7Pad(plaintext))]

\* aes256CbcDecrypt (lines 20-23): cipher.final() refuses a ciphertext that is
\* not whole blocks and a plaintext that does not end in its padding.
aes256CbcDecrypt(iv, key, ciphertext) ==
  IF Len(iv) # BlockLen
    THEN [outcome |-> "throw", error |-> "Invalid initialization vector", value |-> <<>>]
  ELSE IF Len(key) # 32
    THEN [outcome |-> "throw", error |-> "Invalid key length", value |-> <<>>]
  ELSE IF ciphertext = <<>> \/ (Len(ciphertext) % BlockLen) # 0
    THEN [outcome |-> "throw", error |-> "wrong final block length", value |-> <<>>]
  ELSE LET padded == CbcDecryptBlocks(key, iv, ciphertext)
           n == padded[Len(padded)]
       IN  IF n < 1 \/ n > BlockLen \/ \E k \in 1..n : padded[Len(padded) - k + 1] # n
             THEN [outcome |-> "throw", error |-> "bad decrypt", value |-> <<>>]
           ELSE [outcome |-> "return", error |-> "",
                 value |-> SubSeq(padded, 1, Len(padded) - n)]

(***************************************************************************)
(* encryptECIES (lines 74-107)                                             *)
(***************************************************************************)
Thrown(msg) == [outcome |-> "throw", error |-> msg]

\* A concatenation with the cipher text ahead of the IV and the key.
EncryptMacDataCipherTextFirst(initializationVector, ephemeralPK, cipherText) ==
  BufferConcat(<<cipherText, EncodeCompressed(ephemeralPK), initializationVector>>)

\* Lines 95-97: the bytes the sender authenticates.
EncryptMacData(initializationVector, ephemeralPK, cipherText) ==
  BufferConcat(<<initializationVector, EncodeCompressed(ephemeralPK), cipherText>>)

\* The whole function; ephemeralSK stands for the scalar genKeyPair() draws
\* and initializationVector for the bytes randomBytes(16) draws.
encryptECIES(publicKey, content, ephemeralSK, initializationVector) ==
  LET isString == content.isString
      plainText == BufferFrom(content)
      ecPK == KeyFromPublic(publicKey)
      ephemeralPK == PointMul(ephemeralSK, CurveG)
      sharedSecret == Derive(ephemeralSK, ecPK.point)
      sharedSecretHex == getHexFromBN(sharedSecret)
      sharedKeys == sharedSecretToKeys(HexToBuffer(sharedSecretHex.value))
      cipherText == aes256CbcEncrypt(initializationVector, sharedKeys.encryptionKey, plainText)
      macData == EncryptMacData(initializationVector, ephemeralPK, cipherText.value)
      mac == hmacSha256(sharedKeys.hmacKey, macData)
  IN  IF ecPK.outcome = "throw" THEN Thrown(ecPK.error)
      ELSE IF sharedSecretHex.outcome = "throw"
        THEN Thrown("Generated a > 32-byte BN for encryption. Failing.")
      ELSE IF cipherText.outcome = "throw" THEN Thrown(cipherText.error)
      ELSE [outcome |-> "return", error |-> "",
            value |-> [iv |-> BufferToHex(initializationVector),
                       ephemeralPK |-> BufferToHex(EncodeCompressed(ephemeralPK)),
                       cipherText |-> BufferToHex(cipherText.value),
                       mac |-> BufferToHex(mac),
                       wasString |-> isString]]

(***************************************************************************)
(* decryptECIES (lines 120-148)                                            *)
(***************************************************************************)
MacCheckError == "Decryption failed: failure in MAC check"

\* A concatenation that also takes in the flag when it is set.
DecryptMacDataFlagWhenSet(cipherObject, ephemeralPK) ==
  BufferConcat(<<HexToBuffer(cipherObject.iv),
                 EncodeCompressed(ephemeralPK),
                 HexToBuffer(cipherObject.cipherText),
                 IF cipherObject.wasString THEN <<1>> ELSE <<>> >>)

\* Lines 128-133: the bytes the receiver authenticates.
DecryptMacData(cipherObject, ephemeralPK) ==
  BufferConcat(<<HexToBuffer(cipherObject.iv),
                 EncodeCompressed(ephemeralPK),
                 HexToBuffer(cipherObject.cipherText)>>)

\* Lines 121-135: everything up to the comparison.  privateKey is the scalar
\* keyFromPrivate reads.
DecryptLocals(privateKey, cipherObject) ==
  LET ephemeralPK == KeyFromPublic(cipherObject.ephemeralPK)
      sharedSecret == Derive(privateKey, ephemeralPK.point)
      sharedSecretHex == getHexFromBN(sharedSecret)
      sharedKeys == sharedSecretToKeys(HexToBuffer(sharedSecretHex.value))
      macData == DecryptMacData(cipherObject, ephemeralPK.point)
  IN  IF ephemeralPK.outcome = "throw" THEN Thrown(ephemeralPK.error)
      ELSE IF sharedSecretHex.outcome = "throw"
        THEN Thrown("Generated a > 32-byte BN for encryption. Failing.")
      ELSE [outcome |-> "return", error |-> "",
            sharedKeys |-> sharedKeys,
            ivBuffer |-> HexToBuffer(cipherObject.iv),
            cipherTextBuffer |-> HexToBuffer(cipherObject.cipherText),
            actualMac |-> hmacSha256(sharedKeys.hmacKey, macData),
            expectedMac |-> HexToBuffer(cipherObject.mac)]

\* A return that looks at the bytes instead of the flag.
DecryptResultByContent(wasString, plainText) ==
  IF 65533 \notin {Utf8Decode(plainText)[k] : k \in 1..Len(Utf8Decode(plainText))}
    THEN StringContent(Utf8Decode(plainText))
    ELSE BufferContent(plainText)

\* Lines 143-147: text when the received flag is set, the buffer otherwise.
DecryptResult(wasString, plainText) ==
  IF wasString THEN StringContent(Utf8Decode(plainText)) ELSE BufferContent(plainText)

\* The whole function: what a call returns or throws, and whether it got past
\* the MAC check.
decryptECIES(privateKey, cipherObject) ==
  LET locals == DecryptLocals(privateKey, cipherObject)
      macOk == equalConstTime(locals.expectedMac, locals.actualMac)
      plainText == aes256CbcDecrypt(locals.ivBuffer, locals.sharedKeys.encryptionKey,
                                    locals.cipherTextBuffer)
      none == BufferContent(<<>>)
  IN  IF locals.outcome = "throw"
        THEN [outcome |-> "throw", error |-> locals.error, macOk |-> FALSE,
              plainText |-> <<>>, value |-> none]
      ELSE IF ~macOk
        THEN [outcome |-> "throw", error |-> MacCheckError, macOk |-> FALSE,
              plainText |-> <<>>, value |-> none]
      ELSE IF plainText.outcome = "throw"
        THEN [outcome |-> "throw", error |-> plainText.error, macOk |-> TRUE,
              plainText |-> <<>>, value |-> none]
      ELSE [outcome |-> "return", error |-> "", macOk |-> TRUE,
            plainText |-> plainText.value,
            value |-> DecryptResult(cipherObject.wasString, plainText.value)]

(***************************************************************************)
(* One encryption, the object on its way, and one decryption, step by step *)
(***************************************************************************)
\* The public half of the key pair whose private half is the scalar sk, as
\* the callers hand it over: the compressed point, in hex.
PublicKeyOf(sk) == BufferToHex(EncodeCompressed(PointMul(sk, CurveG)))

\* getPublicKeyFromPrivate (./keys, the derivation of the public key that
\* signECDSA passes on): the compressed point of the key, in hex.
getPublicKeyFromPrivate(privateKey) ==
  BufferToHex(EncodeCompressed(PointMul(privateKey, CurveG)))

\* The keys, IVs and contents the model draws from.
NumRecipientKeys == 2
NumEphemeralKeys == 2
RecipientKeys == {57 + 41 * k : k \in 0..(NumRecipientKeys - 1)}
EphemeralKeys == {101 + 29 * k : k \in 0..(NumEphemeralKeys - 1)}
IVs == {[i \in 1..16 |-> (k * (16 * i + 1)) % 256] : k \in {0, 1}}

Contents ==
  { StringContent(<<>>),
    BufferContent(<<>>),
    StringContent(<<104, 105>>),
    BufferContent(<<104, 105>>),
    StringContent(<<233, 8364>>),
    StringContent(<<55357, 56832>>),
    StringContent(<<97, 55296>>),
    StringContent(<<56832, 98>>),
    StringContent(Fill(16, 120)),
    BufferContent(<<0, 255, 128>>),
    BufferContent(Fill(16, 16)) }

\* An empty string (one block of ciphertext) and a buffer of one whole block
\* (two blocks of ciphertext).
ShortContents == {StringContent(<<>>), BufferContent(Fill(16, 16))}

NoObject == [iv |-> <<>>, ephemeralPK |-> <<>>, cipherText |-> <<>>, mac |-> <<>>,
             wasString |-> FALSE]
NoTamper == [kind |-> "none", field |-> "", byte |-> 0, bit |-> 0]
NoLocals == [outcome |-> "none", error |-> "",
             sharedKeys |-> [encryptionKey |-> <<>>, hmacKey |-> <<>>],
             ivBuffer |-> <<>>, cipherTextBuffer |-> <<>>,
             actualMac |-> <<>>, expectedMac |-> <<>>]

EciesInit ==
  /\ ecies = [pc |-> "idle", privateKey |-> 0, content |-> BufferContent(<<>>),
              ephemeralSK |-> 0, initializationVector |-> <<>>,
              sent |-> NoObject, cipherObject |-> NoObject, tamper |-> NoTamper,
              locals |-> NoLocals, calls |-> <<>>, macOk |-> FALSE,
              plainText |-> <<>>, outcome |-> "none", error |-> "",
              value |-> BufferContent(<<>>)]
  /\ eq = Unused /\ hx = Unused /\ dsa = Unused

\* encryptECIES(publicKey, content) for the public key of a recipient.
EncryptOneOf(contents) ==
  /\ ecies.pc = "idle"
  /\ \E sk \in RecipientKeys, content \in contents,
        esk \in EphemeralKeys, iv \in IVs :
       \E r \in {encryptECIES(PublicKeyOf(sk), content, esk, iv)} :
           /\ r.outcome = "return"
           /\ ecies' = [ecies EXCEPT !.pc = "encrypted", !.privateKey = sk,
                                     !.content = content, !.ephemeralSK = esk,
                                     !.initializationVector = iv,
                                     !.sent = r.value, !.cipherObject = r.value]
  /\ UNCHANGED <<eq, hx, dsa>>

Encrypt == EncryptOneOf(Contents)

\* The same, for the contents whose objects the tampering runs flip bit by bit.
EncryptShort == EncryptOneOf(ShortContents)

\* The object reaches the recipient as it was sent.
Deliver ==
  /\ ecies.pc = "encrypted"
  /\ ecies' = [ecies EXCEPT !.pc = "handed"]
  /\ UNCHANGED <<eq, hx, dsa>>

ByteFields == {"iv", "ephemeralPK", "cipherText", "mac"}

\* The object with one bit of one byte of one field flipped.
FlipField(cipherObject, field, byte, bit) ==
  LET bytes == HexToBuffer(cipherObject[field])
      flipped == [bytes EXCEPT ![byte] = BitXor(@, Pow2(bit))]
  IN  [cipherObject EXCEPT ![field] = BufferToHex(flipped)]

\* One bit of the object is flipped on the way.
FlipBit ==
  /\ ecies.pc = "encrypted"
  /\ \E field \in ByteFields :
       \E byte \in 1..Len(HexToBuffer(ecies.cipherObject[field])), bit \in 0..7 :
         ecies' = [ecies EXCEPT !.pc = "handed",
                                !.cipherObject = FlipField(@, field, byte, bit),
                                !.tamper = [kind |-> "flip", field |-> field,
                                            byte |-> byte, bit |-> bit]]
  /\ UNCHANGED <<eq, hx, dsa>>

\* The ephemeral public key is rewritten in another encoding of the same point.
ReencodeEphemeralPK ==
  /\ ecies.pc = "encrypted"
  /\ \E form \in {"uncompressed", "hybrid"} :
       LET P == KeyFromPublic(ecies.cipherObject.ephemeralPK).point
           bytes == IF form = "hybrid" THEN EncodeHybrid(P) ELSE EncodeUncompressed(P)
       IN  ecies' = [ecies EXCEPT !.pc = "handed",
                                  !.cipherObject.ephemeralPK = BufferToHex(bytes),
                                  !.tamper = [kind |-> "reencode", field |-> form,
                                              byte |-> 0, bit |-> 0]]
  /\ UNCHANGED <<eq, hx, dsa>>

\* The wasString flag is inverted on the way.
ToggleWasString ==
  /\ ecies.pc = "encrypted"
  /\ ecies' = [ecies EXCEPT !.pc = "handed",
                            !.cipherObject.wasString = ~@,
                            !.tamper = [kind |-> "toggle", field |-> "wasString",
                                        byte |-> 0, bit |-> 0]]
  /\ UNCHANGED <<eq, hx, dsa>>

\* decryptECIES, lines 121-135: keys, shared secret, both MACs.
DecryptStart ==
  /\ ecies.pc = "handed"
  /\ \E locals \in {DecryptLocals(ecies.privateKey, ecies.cipherObject)} :
         IF locals.outcome = "throw"
           THEN ecies' = [ecies EXCEPT !.pc = "done", !.outcome = "throw",
                                       !.error = locals.error,
                                       !.calls = Append(@, "keyFromPublic")]
           ELSE ecies' = [ecies EXCEPT !.pc = "compare", !.locals = locals,
                                       !.calls = @ \o <<"keyFromPublic", "hmacSha256">>]
  /\ UNCHANGED <<eq, hx, dsa>>

\* A comparison whose result is recorded and not acted upon.
DecryptMacCheckNoThrow ==
  /\ ecies.pc = "compare"
  /\ ecies' = [ecies EXCEPT !.pc = "decrypt",
                            !.macOk = equalConstTime(ecies.locals.expectedMac,
                                                     ecies.locals.actualMac),
                            !.calls = Append(@, "equalConstTime")]
  /\ UNCHANGED <<eq, hx, dsa>>

\* Lines 136-138: the comparison, and the throw when it fails.
DecryptMacCheck ==
  /\ ecies.pc = "compare"
  /\ LET ok == equalConstTime(ecies.locals.expectedMac, ecies.locals.actualMac)
     IN  IF ~ok
           THEN ecies' = [ecies EXCEPT !.pc = "done", !.macOk = FALSE,
                                       !.outcome = "throw", !.error = MacCheckError,
                                       !.calls = Append(@, "equalConstTime")]
           ELSE ecies' = [ecies EXCEPT !.pc = "decrypt", !.macOk = TRUE,
                                       !.calls = Append(@, "equalConstTime")]
  /\ UNCHANGED <<eq, hx, dsa>>

\* Lines 139-141: the block cipher.
DecryptAes ==
  /\ ecies.pc = "decrypt"
  /\ \E plainText \in {aes256CbcDecrypt(ecies.locals.ivBuffer,
                                          ecies.locals.sharedKeys.encryptionKey,
                                          ecies.locals.cipherTextBuffer)} :
         IF plainText.outcome = "throw"
           THEN ecies' = [ecies EXCEPT !.pc = "done", !.outcome = "throw",
                                       !.error = plainText.error,
                                       !.calls = Append(@, "aes256CbcDecrypt")]
           ELSE ecies' = [ecies EXCEPT !.pc = "result", !.plainText = plainText.value,
                                       !.calls = Append(@, "aes256CbcDecrypt")]
  /\ UNCHANGED <<eq, hx, dsa>>

\* Lines 143-147: the value returned.
DecryptReturn ==
  /\ ecies.pc = "result"
  /\ ecies' = [ecies EXCEPT !.pc = "done", !.outcome = "return",
                            !.value = DecryptResult(ecies.cipherObject.wasString,
                                                    ecies.plainText)]
  /\ UNCHANGED <<eq, hx, dsa>>

EciesNext ==
  \/ Encrypt
  \/ Deliver
  \/ ReencodeEphemeralPK
  \/ ToggleWasString
  \/ DecryptStart
  \/ DecryptMacCheck
  \/ DecryptAes
  \/ DecryptReturn

\* Encryption, delivery as sent or re-encoded or with the flag inverted, and
\* decryption: every content.
SpecEcies == EciesInit /\ [][EciesNext]_vars

TamperNext ==
  \/ EncryptShort
  \/ Deliver
  \/ FlipBit
  \/ ReencodeEphemeralPK
  \/ ToggleWasString
  \/ DecryptStart
  \/ DecryptMacCheck
  \/ DecryptAes
  \/ DecryptReturn

\* The same with every single-bit flip of every byte field on the way.
SpecTamper == EciesInit /\ [][TamperNext]_vars

(***************************************************************************)
(* Properties of encryptECIES and decryptECIES                             *)
(***************************************************************************)
NoPlaintext == ecies.plainText = <<>> /\ ecies.value = BufferContent(<<>>)

WellFormedString(units) ==
  \A k \in 1..Len(units) :
    /\ IsHighSurrogate(units[k]) => (k < Len(units) /\ IsLowSurrogate(units[k + 1]))
    /\ IsLowSurrogate(units[k]) => (k > 1 /\ IsHighSurrogate(units[k - 1]))

\* The string with U+FFFD in place of every surrogate that has no partner.
ReplaceUnpaired(units) ==
  [k \in 1..Len(units) |->
     IF IsHighSurrogate(units[k]) /\ ~(k < Len(units) /\ IsLowSurrogate(units[k + 1]))
       THEN 65533
     ELSE IF IsLowSurrogate(units[k]) /\ ~(k > 1 /\ IsHighSurrogate(units[k - 1]))
       THEN 65533
     ELSE units[k]]

\* C1 as claimed: decrypting what encryptECIES returned gives back the
\* content, equal and of the same kind, whatever the content.
RoundTripAnyContent ==
  (ecies.pc = "done" /\ ecies.tamper.kind = "none") =>
    (ecies.outcome = "return" /\ ecies.value = ecies.content)

\* C1 as amended: the round trip returns a value of the kind of the content;
\* it is the content itself for a buffer and for a string in which every
\* surrogate is paired, and otherwise the string with U+FFFD in place of each
\* unpaired surrogate.
RoundTrip ==
  (ecies.pc = "done" /\ ecies.tamper.kind = "none") =>
    /\ ecies.outcome = "return"
    /\ ecies.value.isString = ecies.content.isString
    /\ ~ecies.content.isString => ecies.value = ecies.content
    /\ (ecies.content.isString /\ WellFormedString(ecies.content.data)) =>
         ecies.value = ecies.content
    /\ ecies.content.isString => ecies.value.data = ReplaceUnpaired(ecies.content.data)

\* A string with a character outside the basic plane has made the round trip.
RoundTripWitness ==
  /\ ecies.pc = "done" /\ ecies.tamper.kind = "none"
  /\ ecies.content = StringContent(<<55357, 56832>>)
  /\ ecies.value = ecies.content

\* C2 as claimed: after a single-bit flip in iv, ephemeralPK, cipherText or
\* mac, decryption fails with the MAC-check error and with no other.
FlipFailsMacCheck ==
  (ecies.pc = "done" /\ ecies.tamper.kind = "flip") =>
    (ecies.outcome = "throw" /\ ecies.error = MacCheckError)

\* C2 as amended: after a single-bit flip decryption always throws and never
\* reaches the block cipher or returns a plaintext; the error is the MAC-check
\* error for a flip in iv, cipherText or mac, and for a flip in ephemeralPK
\* either the MAC-check error or the key parser's error (the bytes are no
\* longer a compressed point of the curve).
FlipFails ==
  (ecies.pc = "done" /\ ecies.tamper.kind = "flip") =>
    /\ ecies.outcome = "throw"
    /\ NoPlaintext
    /\ \A k \in 1..Len(ecies.calls) : ecies.calls[k] # "aes256CbcDecrypt"
    /\ ecies.tamper.field # "ephemeralPK" => ecies.error = MacCheckError
    /\ ecies.tamper.field = "ephemeralPK" =>
         ecies.error \in {MacCheckError, "invalid point", "Unknown point format"}
    /\ ecies.error = MacCheckError <=> ecies.locals.outcome = "return"

\* A flip in the x coordinate of ephemeralPK gave another point of the curve,
\* and the MAC check refused the object.
FlipFailsWitness ==
  /\ ecies.pc = "done" /\ ecies.tamper.kind = "flip"
  /\ ecies.tamper.field = "ephemeralPK" /\ ecies.tamper.byte = 2
  /\ ecies.error = MacCheckError

\* C3: the block cipher runs only after equalConstTime has returned true for
\* the received and the recomputed MAC; when it returns false the call ends
\* with the MAC-check error, without the block cipher and without a plaintext.
VerifyBeforeDecrypt ==
  LET compared == \E k \in 1..Len(ecies.calls) : ecies.calls[k] = "equalConstTime"
      same == equalConstTime(ecies.locals.expectedMac, ecies.locals.actualMac)
  IN  /\ \A k \in 1..Len(ecies.calls) :
           ecies.calls[k] = "aes256CbcDecrypt" =>
             /\ \E j \in 1..(k - 1) : ecies.calls[j] = "equalConstTime"
             /\ same
      /\ (compared /\ ~same) =>
           /\ ecies.pc = "done"
           /\ ecies.outcome = "throw" /\ ecies.error = MacCheckError
           /\ \A k \in 1..Len(ecies.calls) : ecies.calls[k] # "aes256CbcDecrypt"
           /\ NoPlaintext
      /\ ecies.pc \in {"decrypt", "result"} => (compared /\ same)

\* A call has ended on a failed comparison.
VerifyBeforeDecryptWitness ==
  /\ ecies.pc = "done"
  /\ ecies.calls = <<"keyFromPublic", "hmacSha256", "equalConstTime">>
  /\ ~equalConstTime(ecies.locals.expectedMac, ecies.locals.actualMac)
  /\ ecies.error = MacCheckError

\* The MAC of the fields of an object, taken over their bytes as received,
\* under the MAC key the recipient derives.
MacOfReceivedBytes(privateKey, cipherObject) ==
  LET point == KeyFromPublic(cipherObject.ephemeralPK).point
      secret == HexToBuffer(getHexFromBN(Derive(privateKey, point)).value)
  IN  hmacSha256(BufferSlice(Sha512(secret), 32, 64),
                 HexToBuffer(cipherObject.iv) \o HexToBuffer(cipherObject.ephemeralPK)
                   \o HexToBuffer(cipherObject.cipherText))

\* C4: an object gets past the MAC check only when its mac is the MAC of its
\* iv, ephemeralPK and cipherText bytes exactly as received.
MacCoversReceivedBytes ==
  (ecies.pc \in {"decrypt", "result", "done"} /\ ecies.macOk) =>
    HexToBuffer(ecies.cipherObject.mac)
      = MacOfReceivedBytes(ecies.privateKey, ecies.cipherObject)

\* C7: the object encryptECIES returns carries the IV and the compressed
\* ephemeral key that were drawn, the encryption of the content under the
\* first 32 bytes of the 64-byte hash of the 32-byte shared secret, and the
\* MAC, under the remaining 32 bytes, of iv, ephemeralPK and cipherText in
\* that order; the secret is taken here from the recipient's side.
EncryptMacConstruction ==
  ecies.pc # "idle" =>
    LET c == ecies.sent
        iv == HexToBuffer(c.iv)
        epk == HexToBuffer(c.ephemeralPK)
        ct == HexToBuffer(c.cipherText)
        x == PointMul(ecies.privateKey, DecodePoint(epk).point).x
        secret == Fill(31, 0) \o <<x>>
        hashed == Sha512(secret)
        encryptionKey == SubSeq(hashed, 1, 32)
        hmacKey == SubSeq(hashed, 33, 64)
    IN  /\ Len(hashed) = 64 /\ Len(hmacKey) = 32
        /\ iv = ecies.initializationVector /\ Len(iv) = 16
        /\ epk = EncodeCompressed(PointMul(ecies.ephemeralSK, CurveG))
        /\ ct = aes256CbcEncrypt(iv, encryptionKey, BufferFrom(ecies.content)).value
        /\ HexToBuffer(c.mac) = hmacSha256(hmacKey, iv \o epk \o ct)
        /\ Len(HexToBuffer(c.mac)) = 32
        /\ c.wasString = ecies.content.isString

\* An object for a string of one whole block has been returned.
EncryptMacConstructionWitness ==
  /\ ecies.pc = "encrypted"
  /\ ecies.content = StringContent(Fill(16, 120))
  /\ Len(ecies.sent.cipherText) = 64 /\ Len(ecies.sent.mac) = 64

\* C10: with nothing but wasString inverted the object passes the MAC check
\* as the object sent does, the same plaintext bytes are decrypted, and the
\* received flag alone decides whether they come back as text or as a buffer.
WasStringNotAuthenticated ==
  (ecies.pc = "done" /\ ecies.tamper.kind = "toggle") =>
    LET ref == decryptECIES(ecies.privateKey, ecies.sent)
    IN  /\ ecies.cipherObject = [ecies.sent EXCEPT !.wasString = ~@]
        /\ ecies.macOk = ref.macOk
        /\ ref.macOk
        /\ ecies.outcome = "return" /\ ref.outcome = "return"
        /\ ecies.plainText = ref.plainText
        /\ ecies.value.isString = ecies.cipherObject.wasString
        /\ ref.value.isString = ecies.sent.wasString
        /\ ecies.value.data = IF ecies.cipherObject.wasString
                                THEN Utf8Decode(ecies.plainText) ELSE ecies.plainText

\* A buffer that is not valid UTF-8 came back as text.
WasStringNotAuthenticatedWitness ==
  /\ ecies.pc = "done" /\ ecies.tamper.kind = "toggle"
  /\ ecies.content = BufferContent(<<0, 255, 128>>)
  /\ ecies.value = StringContent(<<0, 65533, 65533>>)

(***************************************************************************)
(* ECDSA, as the curve library signs and verifies                          *)
(***************************************************************************)
\* The big number a byte array holds, most significant byte first.
RECURSIVE BytesToInt(_)
BytesToInt(bytes) ==
  IF bytes = <<>> THEN 0
  ELSE 256 * BytesToInt(SubSeq(bytes, 1, Len(bytes) - 1)) + bytes[Len(bytes)]

RECURSIVE StripLeadingZeros(_)
StripLeadingZeros(bytes) ==
  IF bytes # <<>> /\ bytes[1] = 0 THEN StripLeadingZeros(Tail(bytes)) ELSE bytes

\* ec._truncateToN(new BN(hash)): the hash is shifted right until it has as
\* many bits as n (the order fills its single byte, so what is left is the
\* leading non-zero byte), and n is subtracted once if the result is not
\* below n.
TruncateToN(hash) ==
  LET natural == StripLeadingZeros(hash)
      top == IF natural = <<>> THEN 0 ELSE natural[1]
  IN  IF top >= CurveN THEN top - CurveN ELSE top

\* A signing round that leaves r out of s.
EcSignWithoutR(priv, e, k) ==
  LET kp == PointMul(k, CurveG)
      r == kp.x % CurveN
      sig == (ModInv(k, CurveN) * ((priv + e) % CurveN)) % CurveN
  IN  [accepted |-> k > 1 /\ k < CurveN - 1 /\ ~kp.inf /\ r # 0 /\ sig # 0,
       r |-> r, s |-> sig]

\* One round of the signing loop with nonce k: accepted unless k, r or s is
\* out of range.
EcSign(priv, e, k) ==
  LET kp == PointMul(k, CurveG)
      r == kp.x % CurveN
      sig == (ModInv(k, CurveN) * ((r * priv + e) % CurveN)) % CurveN
  IN  [accepted |-> k > 1 /\ k < CurveN - 1 /\ ~kp.inf /\ r # 0 /\ sig # 0,
       r |-> r, s |-> sig]

\* bn.toArray() of a positive number below 65536.
IntToBytes(n) == IF n < 256 THEN <<n>> ELSE <<n \div 256, n % 256>>

\* signature.toDER(): 30 len 02 len r 02 len s, a zero byte before a number
\* whose leading bit is set.
ToDER(r, sig) ==
  LET pad(bytes) == IF bytes[1] >= 128 THEN <<0>> \o bytes ELSE bytes
      rb == pad(IntToBytes(r))
      sb == pad(IntToBytes(sig))
      backHalf == <<2, Len(rb)>> \o rb \o <<2, Len(sb)>> \o sb
  IN  <<48, Len(backHalf)>> \o backHalf

\* getLength of the DER reader at place p: the length and the place after it
\* (a first byte with its high bit set gives the number of length bytes).
DerLength(data, p) ==
  IF p > Len(data) THEN [len |-> -1, next |-> p + 1]
  ELSE IF data[p] < 128 THEN [len |-> data[p], next |-> p + 1]
  ELSE LET octets == data[p] % 16
       IN  IF p + octets > Len(data) THEN [len |-> -1, next |-> p + 1 + octets]
           ELSE [len |-> BytesToInt(SubSeq(data, p + 1, p + octets)),
                 next |-> p + 1 + octets]

\* signature._importDER(data): the numbers r and s, or a refusal.
ImportDER(data) ==
  LET refused == [ok |-> FALSE, r |-> 0, s |-> 0]
      total == DerLength(data, 2)
      rAt == total.next + 1
      rLen == DerLength(data, rAt)
      sAt == rLen.next + rLen.len + 1
      sLen == DerLength(data, sAt)
  IN  IF \E k \in 1..Len(data) : data[k] < 0 THEN refused
      ELSE IF data = <<>> \/ data[1] # 48 THEN refused
      ELSE IF total.len < 0 \/ total.len + total.next - 1 # Len(data) THEN refused
      ELSE IF data[total.next] # 2 THEN refused
      ELSE IF rLen.len < 0 \/ rLen.next + rLen.len > Len(data) THEN refused
      ELSE IF data[rLen.next + rLen.len] # 2 THEN refused
      ELSE IF sLen.len < 0 \/ Len(data) # sLen.len + sLen.next - 1 THEN refused
      ELSE [ok |-> TRUE,
            r |-> BytesToInt(SubSeq(data, rLen.next, rLen.next + rLen.len - 1)),
            s |-> BytesToInt(SubSeq(data, sLen.next, Len(data)))]

\* ec.verify once the hash is truncated and the signature read.
EcVerifyParsed(e, sig, pub) ==
  LET sinv == ModInv(sig.s, CurveN)
      u1 == (sinv * e) % CurveN
      u2 == (sinv * sig.r) % CurveN
      pt == PointAdd(PointMul(u1, CurveG), PointMul(u2, pub))
  IN  IF ~sig.ok THEN [outcome |-> "throw", error |-> "Signature without r or s", value |-> FALSE]
      ELSE IF sig.r < 1 \/ sig.r >= CurveN \/ sig.s < 1 \/ sig.s >= CurveN
        THEN [outcome |-> "return", error |-> "", value |-> FALSE]
      ELSE IF pt.inf THEN [outcome |-> "return", error |-> "", value |-> FALSE]
      ELSE [outcome |-> "return", error |-> "", value |-> (pt.x % CurveN) = sig.r]

\* ec.verify(hash, signature, key) for a key already read: the answer, or the
\* error of the signature reader.
EcVerify(hash, signature, pub) ==
  EcVerifyParsed(TruncateToN(hash), ImportDER(CurveHexToArray(signature)), pub)

\* signECDSA (lines 159-172); k stands for the nonce the signing loop settles on.
signECDSA(privateKey, content, k) ==
  LET contentBuffer == BufferFrom(content)
      publicKey == getPublicKeyFromPrivate(privateKey)
      contentHash == Sha256(contentBuffer)
      signature == EcSign(privateKey, TruncateToN(contentHash), k)
  IN  [accepted |-> signature.accepted,
       signature |-> BufferToHex(ToDER(signature.r, signature.s)),
       publicKey |-> publicKey]

\* verifyECDSA (lines 182-190).
verifyECDSA(content, publicKey, signature) ==
  LET contentBuffer == BufferFrom(content)
      ecPublic == KeyFromPublic(publicKey)
      contentHash == Sha256(contentBuffer)
  IN  IF ecPublic.outcome = "throw"
        THEN [outcome |-> "throw", error |-> ecPublic.error, value |-> FALSE]
      ELSE EcVerify(contentHash, signature, ecPublic.point)

(***************************************************************************)
(* Signing and verifying, one call per step                                *)
(***************************************************************************)
SignerKeys == {57, 98, 139}
Nonces == {5, 77, 150}
SignContents ==
  {StringContent(<<104, 105>>), BufferContent(<<1>>), StringContent(<<>>)}

\* Every well-formed public key of the curve, compressed.
AllPublicKeys == {PublicKeyOf(d) : d \in 1..(CurveN - 1)}

OffCurveX == CHOOSE x \in 0..(CurveP - 1) : PointFromX(x, FALSE).outcome = "throw"

\* Byte strings that are not the encoding of any public key, made from a
\* good one: empty, cut short, too long, unknown prefix, not hexadecimal, an
\* x with no point, and an uncompressed pair (x, y) that is not on the curve.
MalformedKeys(publicKey) ==
  LET pt == KeyFromPublic(publicKey).point
  IN  {<<>>,
       SubSeq(publicKey, 1, 2),
       publicKey \o <<"0", "0">>,
       <<"0", "5">> \o SubSeq(publicKey, 3, Len(publicKey)),
       <<"z", "z">> \o SubSeq(publicKey, 3, Len(publicKey)),
       BufferToHex(<<2, OffCurveX>>),
       BufferToHex(<<4, pt.x, (pt.y + 1) % CurveP>>)}

\* Byte strings that are not DER signatures, made from a good one: empty,
\* wrong outer tag, cut short, too long, wrong tag on r or on s, not
\* hexadecimal.
MalformedSignatures(signature) ==
  LET bytes == HexToBuffer(signature)
      sTag == 5 + bytes[4]
  IN  {<<>>,
       <<"3", "1">> \o SubSeq(signature, 3, Len(signature)),
       SubSeq(signature, 1, Len(signature) - 2),
       signature \o <<"0", "0">>,
       BufferToHex([bytes EXCEPT ![3] = 3]),
       BufferToHex([bytes EXCEPT ![sTag] = 3]),
       <<"z", "z">> \o SubSeq(signature, 3, Len(signature))}

NoCall == [content |-> StringContent(<<>>), publicKey |-> <<>>, signature |-> <<>>]

DsaInit ==
  /\ dsa = [pc |-> "idle", privateKey |-> 0, content |-> StringContent(<<>>),
            nonce |-> 0, signature |-> <<>>, publicKey |-> <<>>,
            variant |-> "none", call |-> NoCall,
            outcome |-> "none", error |-> "", value |-> FALSE]
  /\ eq = Unused /\ hx = Unused /\ ecies = Unused

\* signECDSA(privateKey, content)
Sign ==
  /\ dsa.pc = "idle"
  /\ \E privateKey \in SignerKeys, content \in SignContents, k \in Nonces :
       \E signed \in {signECDSA(privateKey, content, k)} :
           /\ signed.accepted
           /\ dsa' = [dsa EXCEPT !.pc = "signed", !.privateKey = privateKey,
                                 !.content = content, !.nonce = k,
                                 !.signature = signed.signature,
                                 !.publicKey = signed.publicKey]
  /\ UNCHANGED <<eq, hx, ecies>>

\* verifyECDSA(content, publicKey, signature), one whole call.
VerifyCall(variant, content, publicKey, signature) ==
  \E result \in {verifyECDSA(content, publicKey, signature)} :
      /\ dsa' = [dsa EXCEPT !.pc = "done", !.variant = variant,
                            !.call = [content |-> content, publicKey |-> publicKey,
                                      signature |-> signature],
                            !.outcome = result.outcome, !.error = result.error,
                            !.value = result.value]
      /\ UNCHANGED <<eq, hx, ecies>>

VerifySame ==
  /\ dsa.pc = "signed"
  /\ VerifyCall("same", dsa.content, PublicKeyOf(dsa.privateKey), dsa.signature)

VerifyOtherContent ==
  /\ dsa.pc = "signed"
  /\ \E content \in SignContents :
       /\ BufferFrom(content) # BufferFrom(dsa.content)
       /\ VerifyCall("otherContent", content, PublicKeyOf(dsa.privateKey), dsa.signature)

VerifyOtherKey ==
  /\ dsa.pc = "signed"
  /\ \E publicKey \in AllPublicKeys :
       /\ publicKey # PublicKeyOf(dsa.privateKey)
       /\ VerifyCall("otherKey", dsa.content, publicKey, dsa.signature)

VerifyMalformedKey ==
  /\ dsa.pc = "signed"
  /\ \E publicKey \in MalformedKeys(PublicKeyOf(dsa.privateKey)) :
       VerifyCall("malformedKey", dsa.content, publicKey, dsa.signature)

VerifyMalformedSignature ==
  /\ dsa.pc = "signed"
  /\ \E signature \in MalformedSignatures(dsa.signature) :
       VerifyCall("malformedSignature", dsa.content, PublicKeyOf(dsa.privateKey),
                  signature)

DsaNext ==
  \/ Sign
  \/ VerifySame
  \/ VerifyOtherContent
  \/ VerifyOtherKey
  \/ VerifyMalformedKey
  \/ VerifyMalformedSignature

SpecEcdsa == DsaInit /\ [][DsaNext]_vars

\* The public keys under which (r, s) is a signature of a hash e: for each
\* curve point R whose x is r modulo n, the key (s R - e G) / r.
RecoverableKeys(r, sig, e) ==
  LET rinv == ModInv(r, CurveN)
      nonces == {PointFromX(x, odd) : x \in {r, r + CurveN} \cap (0..(CurveP - 1)),
                                      odd \in BOOLEAN}
  IN  {PointMul(rinv, PointAdd(PointMul(sig, R.point),
                               PointNeg(PointMul(e, CurveG)))) :
         R \in {c \in nonces : c.outcome = "return"}}

HashOf(content) == TruncateToN(Sha256(BufferFrom(content)))
SignedPair == EcSign(dsa.privateKey, HashOf(dsa.content), dsa.nonce)
WellFormedCall == dsa.pc = "done" /\ dsa.variant \in {"same", "otherContent", "otherKey"}

\* C5 as claimed: verifying a signature with the signer's key and the signed
\* content returns true, and with any different content or any different
\* well-formed public key it returns false.
SignatureCorrectnessAsClaimed ==
  WellFormedCall =>
    /\ dsa.outcome = "return"
    /\ dsa.value = (dsa.variant = "same")

\* C5: verifying a signature with the signer's key and the signed content
\* returns true; with different content or a different well-formed public
\* key the call returns a boolean without raising, true exactly when the key
\* is one of the keys recoverable from the signature and the hash of the
\* content, so false for every content with another hash value and false for
\* every other key but the one second key recoverable from the signature.
SignatureCorrectness ==
  WellFormedCall =>
    LET keys == RecoverableKeys(SignedPair.r, SignedPair.s, HashOf(dsa.call.content))
        key == KeyFromPublic(dsa.call.publicKey).point
        own == KeyFromPublic(PublicKeyOf(dsa.privateKey)).point
    IN  /\ dsa.outcome = "return"
        /\ dsa.value = (key \in keys)
        /\ dsa.variant = "same" => dsa.value
        /\ dsa.variant = "otherContent" => ~dsa.value
        /\ dsa.variant = "otherKey" =>
             /\ Cardinality(keys \ {own}) = 1
             /\ dsa.value = (key \in keys \ {own})

SignatureCorrectnessWitness ==
  /\ dsa.pc = "done" /\ dsa.variant = "otherKey"
  /\ dsa.outcome = "return" /\ dsa.value
  /\ dsa.call.publicKey # PublicKeyOf(dsa.privateKey)

\* C6 as claimed: a call of verifyECDSA with a malformed public key or a
\* malformed DER signature ends in an error and never returns a boolean.
MalformedInputRaises ==
  (dsa.pc = "done" /\ dsa.variant \in {"malformedKey", "malformedSignature"})
    => dsa.outcome = "throw"

====
